---- MODULE Spec2Model ----
(***************************************************************************)
(* A model of the effect-handler virtual machine of src/src/vm.rs: one     *)
(* running Fiber, the suspended fibers held by Data::Cont values, and one  *)
(* action per arm of the interpreter loop Fiber::run.                       *)
(*                                                                          *)
(* Rc<Fiber> handles are numbers into the heap `conts`; Rc<Vec<Op>> code    *)
(* handles are numbers read by Code.  The strong count of                   *)
(* an Rc<Fiber> is the number of handle slots that hold it in everything    *)
(* that is still alive (reachable from the running fiber).                  *)
(*                                                                          *)
(* f64 values are modelled as exact extended rationals num/den (den = 0:    *)
(* infinity or NaN); rounding, overflow and the sign of zero are left out.  *)
(* The arms Return, Get, Set and Capture of Fiber::run are todo!() in the   *)
(* source and are not part of the programs drawn here.                      *)
(***************************************************************************)
EXTENDS Integers, Sequences, FiniteSets, TLC

VARIABLES program, cur, conts, result, nextRc, nextFid, resumed, raisedBy,
          last

vars == <<program, cur, conts, result, nextRc, nextFid, resumed, raisedBy,
          last>>

\* Longest free part of the entry program drawn in Init.
MaxMain == 3

\* A run is followed as long as the running fiber has at most MaxFrames
\* frames.
MaxFrames == 4

\* Effect names used by the programs (Name(0), Name(1)).
Names == {0, 1}

------------------------------------------------------------------------------
\* Values (enum Data).  Every value is a record of the same shape:
\*   Float   v/w  (w = 0: v = 0 is NaN, v = 1 or -1 an infinity)
\*   Fun     v = code handle, w = captures handle (0: the empty vector)
\*   RawFun  v = code handle, w = num_captures
\*   Cont    v = Rc<Fiber> handle
NoData == [tag |-> "None", v |-> 0, w |-> 0]

Float(n) == [tag |-> "Float", v |-> n, w |-> 1]

Fun(k) == [tag |-> "Fun", v |-> k, w |-> 0]

\* A closure over the code k with the captures vector c (0: empty).
FunWith(k, c) == [tag |-> "Fun", v |-> k, w |-> c]

RawFun(k, n) == [tag |-> "RawFun", v |-> k, w |-> n]

Cont(c) == [tag |-> "Cont", v |-> c, w |-> 0]

\* Instructions (enum Op), again of one shape: n is the Name or the count.
OpConst(d) == [op |-> "Const", n |-> 0, d |-> d]

OpAdd == [op |-> "Add", n |-> 0, d |-> NoData]

OpDiv == [op |-> "Div", n |-> 0, d |-> NoData]

OpHandler(name) == [op |-> "Handler", n |-> name, d |-> NoData]

OpRaise(name) == [op |-> "Raise", n |-> name, d |-> NoData]

OpCall == [op |-> "Call", n |-> 0, d |-> NoData]

OpPop(times) == [op |-> "Pop", n |-> times, d |-> NoData]

------------------------------------------------------------------------------
\* f64 arithmetic on extended rationals.
Abs(x) == IF x < 0 THEN -x ELSE x

Sign(x) == IF x < 0 THEN -1 ELSE IF x > 0 THEN 1 ELSE 0

RECURSIVE Gcd(_, _)
Gcd(a, b) == IF b = 0 THEN a ELSE Gcd(b, a % b)

\* The value n/d in lowest terms with a positive denominator (d # 0).
Ratio(n, d) ==
    LET g == Gcd(Abs(n), Abs(d))
    IN  [tag |-> "Float", v |-> (Sign(d) * n) \div g, w |-> Abs(d) \div g]

NaN == [tag |-> "Float", v |-> 0, w |-> 0]

Inf(s) == [tag |-> "Float", v |-> s, w |-> 0]

IsNaN(x) == x.w = 0 /\ x.v = 0

IsInf(x) == x.w = 0 /\ x.v # 0

\* a == 0.0
IsZero(x) == x.w # 0 /\ x.v = 0

\* a + b
FAdd(a, b) ==
    IF IsNaN(a) \/ IsNaN(b) THEN NaN
    ELSE IF IsInf(a) /\ IsInf(b) THEN (IF a.v = b.v THEN a ELSE NaN)
    ELSE IF IsInf(a) THEN a
    ELSE IF IsInf(b) THEN b
    ELSE Ratio(a.v * b.w + b.v * a.w, a.w * b.w)

\* a / b
FDiv(a, b) ==
    IF IsNaN(a) \/ IsNaN(b) THEN NaN
    ELSE IF IsInf(a) /\ IsInf(b) THEN NaN
    ELSE IF IsInf(a) THEN Inf(IF b.v < 0 THEN -a.v ELSE a.v)
    ELSE IF IsInf(b) THEN Float(0)
    ELSE IF b.v = 0 THEN (IF a.v = 0 THEN NaN ELSE Inf(Sign(a.v)))
    ELSE Ratio(a.v * b.w, a.w * b.v)

------------------------------------------------------------------------------
\* The programs the host hands to the machine.  Code 1 is the entry closure
\* (the variable program); codes 2.. are the closures it holds as constants.  As in main.rs the
\* handler closure is the one-instruction resumption [Call] (here with a
\* second Call, so that it can be resumed and resume once more).
Resumer == <<OpCall, OpCall>>

\* Raises effect 0 with the value on top of the stack and, once resumed,
\* pops three values.  Run as a handler it first pushes 1, so that it raises
\* again the effect it handles.
Raiser == <<OpConst(Float(1)), OpRaise(0), OpPop(3)>>

\* Binds effect 0 to Raiser in its own frame and raises it with its argument.
Shadower == <<OpConst(Float(0)), OpConst(Fun(3)), OpHandler(0), OpRaise(0)>>

\* Calls Raiser from one frame further in, above its own argument.
Nester == <<OpConst(Float(0)), OpConst(Fun(3)), OpConst(Float(1)), OpCall>>

Library == <<Resumer, Raiser, Shadower, Nester>>

\* The host's own Rc<Fiber>: Data::Cont(Rc::new(Fiber::new(fun))) as a constant.
HostCont == 1

HostFun == Fun(2)

Alphabet ==
    {OpConst(Float(0)), OpConst(Float(1)), OpConst(Cont(HostCont)),
     OpAdd, OpDiv, OpCall, OpPop(2), OpHandler(0), OpRaise(0)}
    \cup {OpConst(Fun(k)) : k \in 2..(Len(Library) + 1)}

\* What main.rs does before it raises: Const(Fun [Call]), Handler(Name(0)).
Prefixes == {<<>>, <<OpConst(Fun(2)), OpHandler(0)>>}

Bodies == UNION {[1..n -> Alphabet] : n \in 0..MaxMain}

Programs == {p \o b : p \in Prefixes, b \in Bodies}

\* A handler and a closure that keep each other going.  Feeder drops the
\* payload of the raise and resumes the raiser with the closure Again;
\* Again, once called, raises Name(1) and then calls whatever it is resumed
\* with.
Feeder == <<OpPop(1), OpConst(Fun(Len(Library) + 3)), OpCall>>

Again == <<OpConst(Float(0)), OpRaise(1), OpConst(Float(0)), OpCall>>

Loops == <<Feeder, Again>>

\* The Vec<Op> behind a code handle.
Code(k) ==
    IF k = 1 THEN program
    ELSE IF k <= Len(Library) + 1 THEN Library[k - 1]
    ELSE Loops[k - 1 - Len(Library)]

------------------------------------------------------------------------------
\* struct Suspend, struct Frame, struct Stack, struct Fiber.
NoSuspend == [some |-> FALSE, ops |-> 0, pc |-> 0]

SuspendNew(ops, pc) == [some |-> TRUE, ops |-> ops, pc |-> pc]

FrameNew(suspend, index, captures) ==
    [suspend  |-> suspend,
     index    |-> index,
     captures |-> captures,
     handlers |-> [n \in Names |-> NoData]]

StackNew(captures) ==
    [datum |-> <<>>, frames |-> <<FrameNew(NoSuspend, 0, captures)>>]

\* Fiber::new.  fid is the number of this construction (a history field: the
\* machine never reads it); parent = 0 is None.
FiberNew(fun, fid) ==
    [fid    |-> fid,
     parent |-> 0,
     datum  |-> StackNew(fun.w).datum,
     frames |-> StackNew(fun.w).frames,
     ops    |-> fun.v,
     pc     |-> 0]

Push(f, data) == [f EXCEPT !.datum = Append(@, data)]

Kill(f) == [f EXCEPT !.pc = Len(Code(f.ops))]

IsDone(f) == f.pc >= Len(Code(f.ops))

NextOp(f) == Code(f.ops)[f.pc + 1]

\* Fiber::pop on a non-empty stack: the value and the fiber left behind.  On
\* an empty stack unwrap_or_fatal kills the fiber and the arm returns Fatal.
CanPop(f) == Len(f.datum) > 0

Top(f) == f.datum[Len(f.datum)]

Popped(f) == [f EXCEPT !.datum = SubSeq(@, 1, Len(@) - 1)]

Advance(f) == [f EXCEPT !.pc = @ + 1]

\* The order of frames.iter() without the rev(): outermost frame first.
OutermostBinding(idxs) == CHOOSE i \in idxs : \A j \in idxs : i <= j

\* The innermost-first order of frames.iter().rev(): the frame searched
\* first among those that bind the name.
FirstBinding(idxs) == CHOOSE i \in idxs : \A j \in idxs : j <= i

\* Fiber::resolve_handler with the extraction closure of the Raise arm: the
\* Fun bound to name (NoData for None).
RECURSIVE ResolveHandler(_, _, _)
ResolveHandler(f, name, heap) ==
    LET binding == {i \in 1..Len(f.frames) :
                        f.frames[i].handlers[name].tag # "None"}
    IN  IF binding # {}
        THEN f.frames[FirstBinding(binding)].handlers[name]
        ELSE IF f.parent # 0
             THEN ResolveHandler(heap[f.parent], name, heap)
             ELSE NoData

------------------------------------------------------------------------------
\* What is alive: the code and the Rc<Fiber>s reachable from a set of roots.
Range(s) == {s[i] : i \in 1..Len(s)}

DataCodes(d) == IF d.tag \in {"Fun", "RawFun"} THEN {d.v} ELSE {}

DataRcs(d) == IF d.tag = "Cont" THEN {d.v} ELSE {}

FiberCodes(f) ==
    {f.ops}
    \cup {fr.suspend.ops : fr \in {g \in Range(f.frames) : g.suspend.some}}
    \cup UNION {DataCodes(fr.handlers[n]) : fr \in Range(f.frames), n \in Names}
    \cup UNION {DataCodes(d) : d \in Range(f.datum)}

FiberRcs(f) ==
    UNION {DataRcs(d) : d \in Range(f.datum)}
    \cup (IF f.parent # 0 THEN {f.parent} ELSE {})

CodeCodes(k) == UNION {DataCodes(o.d) : o \in Range(Code(k))}

CodeRcs(k) == UNION {DataRcs(o.d) : o \in Range(Code(k))}

RECURSIVE Reach(_, _, _)
Reach(cs, rs, heap) ==
    LET cs2 == cs \cup UNION {CodeCodes(k) : k \in cs}
                  \cup UNION {FiberCodes(heap[r]) : r \in rs}
        rs2 == rs \cup UNION {CodeRcs(k) : k \in cs}
                  \cup UNION {FiberRcs(heap[r]) : r \in rs}
    IN  IF cs2 = cs /\ rs2 = rs THEN [codes |-> cs, rcs |-> rs]
        ELSE Reach(cs2, rs2, heap)

\* Alive while f runs and the value d is held (by the Effect returned).
Live(f, d, heap) ==
    Reach(FiberCodes(f) \cup DataCodes(d), FiberRcs(f) \cup DataRcs(d), heap)

\* Number of slots of the sequence s that hold x.
Count(s, x) == Cardinality({i \in 1..Len(s) : s[i] = x})

\* Rc::strong_count of the handle c while f runs: the slots holding it in
\* the operand stacks and parent links of the live fibers and in the
\* constants of the live code.
StrongCount(c, f, heap) ==
    LET live == Live(f, NoData, heap)
        OfFiber(g) == Count(g.datum, Cont(c)) + (IF g.parent = c THEN 1 ELSE 0)
        fibers == [r \in live.rcs |-> OfFiber(heap[r])]
        codes == [k \in live.codes |-> Count(Code(k), OpConst(Cont(c)))]
        RECURSIVE Sum(_, _)
        Sum(fn, dom) == IF dom = {} THEN 0
                        ELSE LET x == CHOOSE y \in dom : TRUE
                             IN  fn[x] + Sum(fn, dom \ {x})
    IN  OfFiber(f) + Sum(fibers, live.rcs) + Sum(codes, live.codes)

\* An unwrap that takes the fiber whatever the strong count.
TryUnwrapAlways(c, f, heap) == TRUE

\* Rc::try_unwrap(fiber).ok(): Some exactly when the handle is the only one.
TryUnwrap(c, f, heap) == StrongCount(c, f, heap) = 1

\* Dropping: the heap keeps the fibers that are still owned by something.
Collect(f, d, heap) == [r \in Live(f, d, heap).rcs |-> heap[r]]

------------------------------------------------------------------------------
\* Result of Fiber::run: Running until it returns, then Ok or an Effect.
Running == [kind |-> "Running", name |-> 0, data |-> NoData]

Ok == [kind |-> "Ok", name |-> 0, data |-> NoData]

Fatal == [kind |-> "Fatal", name |-> 0, data |-> NoData]

TypeMismatch == [kind |-> "TypeMismatch", name |-> 0, data |-> NoData]

ZeroDivision == [kind |-> "ZeroDivision", name |-> 0, data |-> NoData]

\* An unhandled effect that drops its payload.
VirtualLost(name, data) == [kind |-> "Virtual", name |-> name, data |-> NoData]

Virtual(name, data) == [kind |-> "Virtual", name |-> name, data |-> data]

\* History, never read by the machine.  last: the instruction the last step
\* executed, the fiber that executed it, its operand stack before the step
\* and the Rc a fiber switch of the step created (0: none).  resumed: the Rc
\* handles a Call has unwrapped.  raisedBy: for each fiber a Raise created,
\* the fiber that raised.
NoStep ==
    [fid |-> 0, ops |-> 0, pc |-> 0, rc |-> 0, datum |-> <<>>,
     op |-> [op |-> "None", n |-> 0, d |-> NoData]]

\* main.rs: Fiber::new(fun) on the entry closure; the host's own fiber
\* constant, when the program holds it, is a Fiber::new as well.
Init ==
    /\ program \in Programs
    /\ cur = FiberNew(Fun(1), 1)
    /\ conts = Collect(cur, NoData, [r \in {HostCont} |-> FiberNew(HostFun, 2)])
    /\ result = Running
    /\ nextRc = HostCont + 1
    /\ nextFid = 3
    /\ resumed = {}
    /\ raisedBy = <<>>
    /\ last = NoStep

------------------------------------------------------------------------------
\* One iteration of the loop of Fiber::run on the instruction at cur.pc.
Fetch(name) ==
    /\ result = Running
    /\ ~IsDone(cur)
    /\ Len(cur.frames) <= MaxFrames
    /\ NextOp(cur).op = name

\* The state the iteration leaves: f runs (or is what run returned with),
\* res is what run returned if it did, rc the Rc a fiber switch created.
Commit(f, heap, res, rc) ==
    /\ cur' = f
    /\ conts' = Collect(f, res.data, heap)
    /\ result' = res
    /\ last' = [fid |-> cur.fid, ops |-> cur.ops, pc |-> cur.pc, rc |-> rc,
                datum |-> cur.datum, op |-> NextOp(cur)]
    /\ UNCHANGED program

\* self.pop()? on an empty stack.
PopFails(f) == Commit(Kill(f), conts, Fatal, 0)

\* A switch that pushes the data first and the continuation on top of it.
SwitchedSwapped(other, rc, data) == Push(Push(other, data), Cont(rc))

\* A switch that pushes the continuation before it swaps the fibers: the
\* displaced fiber is stored holding its own continuation.
DisplacedWithCont(old, rc, heap) ==
    [r \in DOMAIN heap \cup {rc} |->
        IF r = rc THEN Push(old, Cont(rc)) ELSE heap[r]]

\* A switch that hands the continuation over twice.
SwitchedTwice(other, rc, data) ==
    Push(Push(Push(other, Cont(rc)), Cont(rc)), data)

\* A switch that advances the pc of the fiber it displaces.
DisplacedAdvanced(old, rc, heap) ==
    [r \in DOMAIN heap \cup {rc} |-> IF r = rc THEN Advance(old) ELSE heap[r]]

\* Fiber::switch: the fiber displaced goes behind a new Rc, the other fiber
\* runs with the continuation and then the data pushed.
Switched(other, rc, data) == Push(Push(other, Cont(rc)), data)

Displaced(old, rc, heap) ==
    [r \in DOMAIN heap \cup {rc} |-> IF r = rc THEN old ELSE heap[r]]

\* A call that takes the base of the callee's frame above the argument.
CalledAboveArgument(f, fun) ==
    [f EXCEPT !.ops = fun.v,
              !.pc = 0,
              !.frames = Append(@, FrameNew(SuspendNew(f.ops, f.pc),
                                            Len(f.datum) + 1, fun.w))]

\* A call that saves nothing of the caller.
CalledUnsuspended(f, fun) ==
    [f EXCEPT !.ops = fun.v,
              !.pc = 0,
              !.frames = Append(@, FrameNew(NoSuspend, Len(f.datum), fun.w))]

\* Fiber::call: the callee's frame, the caller's place saved in its Suspend.
Called(f, fun) ==
    [f EXCEPT !.ops = fun.v,
              !.pc = 0,
              !.frames = Append(@, FrameNew(SuspendNew(f.ops, f.pc),
                                            Len(f.datum), fun.w))]

ExecConst ==
    /\ Fetch("Const")
    /\ Commit(Advance(Push(cur, NextOp(cur).d)), conts, Running, 0)
    /\ UNCHANGED <<nextRc, nextFid, resumed, raisedBy>>

\* Result<_, Effect> of the arithmetic: err = Running stands for Ok(val).
MathOk(val) == [val |-> val, err |-> Running]

MathErr(err) == [val |-> NoData, err |-> err]

\* A difference in place of the sum.
AddOpSub(a, b) == MathOk(FAdd(a, [b EXCEPT !.v = -@]))

\* |a, b| Ok(a + b)
AddOp(a, b) == MathOk(FAdd(a, b))

\* The quotient the other way round: the value pushed first over the value
\* pushed second.
DivOpSwapped(a, b) ==
    IF IsZero(a) THEN MathErr(ZeroDivision) ELSE MathOk(FDiv(b, a))

\* |a, b| if a == 0.0 { Err(ZeroDivision) } else { Ok(a / b) }
DivOp(a, b) == IF IsZero(a) THEN MathErr(ZeroDivision) ELSE MathOk(FDiv(a, b))

\* The closure the arm of the instruction hands to try_math.
Binop(name, a, b) == IF name = "Add" THEN AddOp(a, b) ELSE DivOp(a, b)

\* Data::try_math.
TryMath(a, b, name) ==
    IF a.tag = "Float" /\ b.tag = "Float" THEN Binop(name, a, b)
    ELSE MathErr(TypeMismatch)

\* Shared by the arms Add and Div: pop a, pop b, push try_math(a, b, binop).
ExecMath(name) ==
    IF ~CanPop(cur) THEN PopFails(cur)
    ELSE LET a == Top(cur)
             f1 == Popped(cur)
         IN  IF ~CanPop(f1) THEN PopFails(f1)
             ELSE LET b == Top(f1)
                      f2 == Popped(f1)
                      r == TryMath(a, b, name)
                  IN  IF r.err = Running
                      THEN Commit(Advance(Push(f2, r.val)), conts, Running, 0)
                      ELSE Commit(f2, conts, r.err, 0)

ExecAdd ==
    /\ Fetch("Add")
    /\ ExecMath("Add")
    /\ UNCHANGED <<nextRc, nextFid, resumed, raisedBy>>

ExecDiv ==
    /\ Fetch("Div")
    /\ ExecMath("Div")
    /\ UNCHANGED <<nextRc, nextFid, resumed, raisedBy>>

\* frames.last_mut() ... .handlers.insert(name, fp)
\* A binding made in the outermost frame.
BindOutermost(frames, name, fp) ==
    [frames EXCEPT ![1].handlers[name] = fp]

Bind(frames, name, fp) ==
    [frames EXCEPT ![Len(frames)].handlers[name] = fp]

ExecHandler ==
    /\ Fetch("Handler")
    /\ IF ~CanPop(cur) THEN PopFails(cur)
       ELSE LET fp == Top(cur)
                f1 == Popped(cur)
            IN  IF fp.tag # "Fun" THEN Commit(f1, conts, TypeMismatch, 0)
                ELSE IF Len(f1.frames) = 0
                THEN Commit(Kill([f1 EXCEPT !.frames = <<>>]), conts, Fatal, 0)
                ELSE Commit(Advance([f1 EXCEPT !.frames =
                                Bind(@, NextOp(cur).n, fp)]), conts, Running, 0)
    /\ UNCHANGED <<nextRc, nextFid, resumed, raisedBy>>

ExecRaise ==
    /\ Fetch("Raise")
    /\ LET name == NextOp(cur).n
           fun == ResolveHandler(cur, name, conts)
       IN  IF ~CanPop(cur)
           THEN PopFails(cur) /\ UNCHANGED <<nextRc, nextFid, raisedBy>>
           ELSE LET data == Top(cur)
                    f1 == Popped(cur)
                IN  IF fun.tag = "None"
                    THEN /\ Commit(f1, conts, Virtual(name, data), 0)
                         /\ UNCHANGED <<nextRc, nextFid, raisedBy>>
                    ELSE /\ Commit(Switched(FiberNew(fun, nextFid), nextRc, data),
                                   Displaced(f1, nextRc, conts), Running, nextRc)
                         /\ nextRc' = nextRc + 1
                         /\ nextFid' = nextFid + 1
                         /\ raisedBy' = [x \in DOMAIN raisedBy \cup {nextFid} |->
                                IF x = nextFid THEN cur.fid ELSE raisedBy[x]]
    /\ UNCHANGED resumed

ExecCall ==
    /\ Fetch("Call")
    /\ IF ~CanPop(cur)
       THEN PopFails(cur) /\ UNCHANGED <<nextRc, resumed>>
       ELSE LET arg == Top(cur)
                f1 == Popped(cur)
            IN  IF ~CanPop(f1)
                THEN PopFails(f1) /\ UNCHANGED <<nextRc, resumed>>
                ELSE LET fun == Top(f1)
                         f2 == Popped(f1)
                     IN  CASE fun.tag = "Fun" ->
                                /\ Commit(Advance(Push(Called(f2, fun), arg)),
                                          conts, Running, 0)
                                /\ UNCHANGED <<nextRc, resumed>>
                           [] fun.tag = "Cont" ->
                                IF TryUnwrap(fun.v, cur, conts)
                                THEN /\ Commit(Advance(Switched(conts[fun.v],
                                                                nextRc, arg)),
                                               Displaced(f2, nextRc, conts),
                                               Running, nextRc)
                                     /\ nextRc' = nextRc + 1
                                     /\ resumed' = resumed \cup {fun.v}
                                ELSE /\ Commit(Kill(f2), conts, Fatal, 0)
                                     /\ UNCHANGED <<nextRc, resumed>>
                           [] OTHER ->
                                /\ Commit(f2, conts, TypeMismatch, 0)
                                /\ UNCHANGED <<nextRc, resumed>>
    /\ UNCHANGED <<nextFid, raisedBy>>

\* One pop more than asked for.
PoppedTimesInclusive(f, times) ==
    [f EXCEPT !.datum = SubSeq(@, 1, Len(@) - (times + 1))]

\* times pops on a stack that holds at least that many values.
PoppedTimes(f, times) == [f EXCEPT !.datum = SubSeq(@, 1, Len(@) - times)]

\* for _ in 0..times { self.pop()?; }
ExecPop ==
    /\ Fetch("Pop")
    /\ LET times == NextOp(cur).n
           n == Len(cur.datum)
       IN  IF n < times
           THEN PopFails([cur EXCEPT !.datum = <<>>])
           ELSE Commit(Advance(PoppedTimes(cur, times)), conts, Running, 0)
    /\ UNCHANGED <<nextRc, nextFid, resumed, raisedBy>>

\* A loop that gives up after its first iteration.
FinishEarly ==
    /\ result = Running
    /\ last # NoStep
    /\ result' = Ok
    /\ UNCHANGED <<program, cur, conts, nextRc, nextFid, resumed, raisedBy, last>>

\* while !self.is_done() { .. } Ok(())
Finish ==
    /\ result = Running
    /\ IsDone(cur)
    /\ result' = Ok
    /\ UNCHANGED <<program, cur, conts, nextRc, nextFid, resumed, raisedBy, last>>

Next ==
    \/ ExecConst
    \/ ExecAdd
    \/ ExecDiv
    \/ ExecHandler
    \/ ExecRaise
    \/ ExecCall
    \/ ExecPop
    \/ Finish

Spec == Init /\ [][Next]_vars

\* main.rs: the arithmetic its program opens with, followed by every tail of
\* at most MaxTail instructions.
MaxTail == 2

MainArith ==
    <<OpConst(Float(3)), OpConst(Float(4)), OpConst(Float(5)), OpAdd, OpDiv>>

TailAlphabet == Alphabet \cup {OpPop(1)}

Tails == UNION {[1..n -> TailAlphabet] : n \in 0..MaxTail}

MainPrograms == {MainArith \o t : t \in Tails}

InitMain ==
    /\ program \in MainPrograms
    /\ cur = FiberNew(Fun(1), 1)
    /\ conts = Collect(cur, NoData, [r \in {HostCont} |-> FiberNew(HostFun, 2)])
    /\ result = Running
    /\ nextRc = HostCont + 1
    /\ nextFid = 3
    /\ resumed = {}
    /\ raisedBy = <<>>
    /\ last = NoStep

SpecMain == InitMain /\ [][Next]_vars

\* Programs that bind Feeder to Name(1) before anything else, with every
\* body of at most MaxLoop instructions.
MaxLoop == 3

LoopPrefix == <<OpConst(Fun(Len(Library) + 2)), OpHandler(1)>>

LoopAlphabet ==
    {OpConst(Float(0)), OpConst(Fun(Len(Library) + 3)), OpCall, OpAdd, OpDiv}

LoopPrograms ==
    {LoopPrefix \o b : b \in UNION {[1..n -> LoopAlphabet] : n \in 0..MaxLoop}}

InitLoop ==
    /\ program \in LoopPrograms
    /\ cur = FiberNew(Fun(1), 1)
    /\ conts = Collect(cur, NoData, [r \in {HostCont} |-> FiberNew(HostFun, 2)])
    /\ result = Running
    /\ nextRc = HostCont + 1
    /\ nextFid = 3
    /\ resumed = {}
    /\ raisedBy = <<>>
    /\ last = NoStep

\* run is one loop on one thread: as long as an iteration is possible it
\* is taken.
LoopSpec == InitLoop /\ [][Next]_vars /\ WF_vars(Next)


\* Programs that push a value and bind main.rs's handler to Name(1) before
\* anything else; the bodies bind both names and call a closure that has
\* captures.
FramePrefix == <<OpConst(Float(0)), OpConst(Fun(2)), OpHandler(1)>>

FrameAlphabet ==
    {OpConst(Float(0)), OpConst(Float(1)), OpAdd, OpDiv, OpCall, OpPop(2),
     OpHandler(0), OpHandler(1), OpRaise(1),
     OpConst(Fun(2)), OpConst(FunWith(3, 1)), OpConst(Fun(4))}

FramePrograms ==
    {FramePrefix \o b : b \in UNION {[1..n -> FrameAlphabet] : n \in 0..MaxMain}}

InitFrames ==
    /\ program \in FramePrograms
    /\ cur = FiberNew(Fun(1), 1)
    /\ conts = Collect(cur, NoData, [r \in {HostCont} |-> FiberNew(HostFun, 2)])
    /\ result = Running
    /\ nextRc = HostCont + 1
    /\ nextFid = 3
    /\ resumed = {}
    /\ raisedBy = <<>>
    /\ last = NoStep

SpecFrames == InitFrames /\ [][Next]_vars

------------------------------------------------------------------------------
\* Vocabulary of the properties.
Failures == {"Fatal", "TypeMismatch", "ZeroDivision", "Virtual"}

\* The frames of f that bind name in their handler table.
BindingFrames(f, name) ==
    {i \in 1..Len(f.frames) : f.frames[i].handlers[name].tag = "Fun"}

Innermost(idxs) == CHOOSE i \in idxs : \A j \in idxs : j <= i

\* The suspended fibers, and all the fibers there are.
Suspended == {conts[r] : r \in DOMAIN conts}

Fibers == {cur} \cup Suspended

\* The fibers a fiber descends from: the fiber whose Raise created it, the
\* fiber whose Raise created that one, and so on.
RECURSIVE Ancestors(_)
Ancestors(fid) ==
    IF fid \in DOMAIN raisedBy
    THEN {raisedBy[fid]} \cup Ancestors(raisedBy[fid])
    ELSE {}

\* The step executes an instruction with (at least) k operands on the stack.
Executes(name, k) == Fetch(name) /\ Len(cur.datum) >= k

\* The callee of a Call: the value below the argument.
Callee(f) == f.datum[Len(f.datum) - 1]

\* The last step was a Raise or a Call that switched fibers.
SwitchedBy(name) == last.op.op = name /\ last.rc # 0

\* A fiber as Fiber::new leaves it: one frame, no Suspend, base 0, no handler.
IsFresh(f) ==
    /\ Len(f.frames) = 1
    /\ ~f.frames[1].suspend.some
    /\ f.frames[1].index = 0
    /\ \A n \in Names : f.frames[1].handlers[n] = NoData
    /\ f.parent = 0

------------------------------------------------------------------------------
\* C1: when a Raise(h) executes with payload p on top of the stack and a frame
\* of the running fiber binds h, the running fiber becomes a fresh fiber of a
\* closure registered for h, with pc = 0 and the operand stack
\* <<Cont(raiser), p>>, the raiser being kept as it was with p popped; the
\* next instruction executed is instruction 0 of that fiber's code.
C1_RaiseEntersHandler ==
    [][/\ (Executes("Raise", 1) /\ BindingFrames(cur, NextOp(cur).n) # {}) =>
            /\ result' = Running
            /\ cur'.fid = nextFid
            /\ cur'.ops \in {cur.frames[i].handlers[NextOp(cur).n].v :
                                i \in BindingFrames(cur, NextOp(cur).n)}
            /\ cur'.pc = 0
            /\ IsFresh(cur')
            /\ last'.rc \notin DOMAIN conts
            /\ cur'.datum = <<Cont(last'.rc), Top(cur)>>
            /\ conts'[last'.rc] = Popped(cur)
       /\ (SwitchedBy("Raise") /\ last' # last) =>
            /\ last'.fid = cur.fid
            /\ last'.ops = cur.ops
            /\ last'.pc = 0
            /\ last'.datum = <<Cont(last.rc), last.datum[Len(last.datum)]>>
      ]_vars

\* C1 witness: a Raise has just switched to the handler's fiber, which holds
\* the continuation of the raiser below the payload.
C1_Witness ==
    /\ SwitchedBy("Raise")
    /\ cur.pc = 0
    /\ last.rc \in DOMAIN conts
    /\ conts[last.rc].fid = last.fid
    /\ cur.datum = <<Cont(last.rc), last.datum[Len(last.datum)]>>

\* C2: a Call whose callee is a continuation made by a fiber switch and whose
\* argument is v makes the wrapped fiber the running fiber, at the instruction
\* after the Raise or Call at which it was suspended, with its stack at
\* suspension plus a continuation of the resuming fiber and v; the resuming
\* fiber is kept with its pc at its Call.
C2_ResumeContinues ==
    [][/\ (Executes("Call", 2) /\ Callee(cur).tag = "Cont"
                               /\ Callee(cur).v # HostCont) =>
            LET saved == conts[Callee(cur).v]
            IN  /\ result' = Running
                /\ ~IsDone(saved)
                /\ NextOp(saved).op \in {"Raise", "Call"}
                /\ cur'.fid = saved.fid
                /\ cur'.ops = saved.ops
                /\ cur'.frames = saved.frames
                /\ cur'.pc = saved.pc + 1
                /\ last'.rc \notin DOMAIN conts
                /\ cur'.datum = saved.datum \o <<Cont(last'.rc), Top(cur)>>
                /\ conts'[last'.rc] = Popped(Popped(cur))
                /\ conts'[last'.rc].pc = cur.pc
       /\ (SwitchedBy("Call") /\ last' # last) =>
            /\ last'.fid = cur.fid
            /\ last'.pc = cur.pc
            /\ cur.pc >= 1
            /\ Code(cur.ops)[cur.pc].op \in {"Raise", "Call"}
      ]_vars

\* C2 witness: a Call has just resumed a fiber that was suspended at a Call.
C2_Witness ==
    /\ SwitchedBy("Call")
    /\ cur.pc >= 1
    /\ Code(cur.ops)[cur.pc].op = "Call"
    /\ last.rc \in DOMAIN conts
    /\ NextOp(conts[last.rc]).op = "Call"

\* C3: a Call on a continuation that has been resumed before, or whose fiber
\* another live handle holds (a constant of the program, another stack slot),
\* fails with Fatal and switches no fiber; a Call that does resume a
\* continuation resumes one never resumed before and leaves no handle to it.
C3_NoSecondResume ==
    [][(Executes("Call", 2) /\ Callee(cur).tag = "Cont") =>
            LET c == Callee(cur).v
                held == \/ c \in resumed
                        \/ StrongCount(c, cur, conts) > 1
                        \/ OpConst(Cont(c)) \in Range(Code(cur.ops))
            IN  /\ held =>
                    /\ result' = Fatal
                    /\ cur'.fid = cur.fid
                    /\ IsDone(cur')
                    /\ last'.rc = 0
                    /\ resumed' = resumed
                /\ last'.rc # 0 =>
                    /\ c \notin resumed
                    /\ resumed' = resumed \cup {c}
                    /\ c \notin DOMAIN conts'
                    /\ \A f \in {cur'} \cup {conts'[r] : r \in DOMAIN conts'} :
                            Cont(c) \notin Range(f.datum)
      ]_vars

\* C3 witness: a Call on a continuation has just failed with Fatal.
C3_Witness ==
    /\ last.op.op = "Call"
    /\ result = Fatal
    /\ Len(last.datum) >= 2
    /\ last.datum[Len(last.datum) - 1].tag = "Cont"
    /\ cur.fid = last.fid

\* C4: whenever run has returned a failure, the fiber is done (its pc is at
\* or past the end of its code).
C4_FailureLeavesFiberDone == result.kind \in Failures => IsDone(cur)

\* C5: a Raise(name) in a fiber that a Raise created, where no frame of that
\* fiber binds name and a frame of a fiber it descends from does, resolves to
\* the handler of that ancestor and does not fail with Virtual.
C5_ResolvesAcrossFibers ==
    [][(/\ Executes("Raise", 1)
        /\ cur.fid \in DOMAIN raisedBy
        /\ BindingFrames(cur, NextOp(cur).n) = {}
        /\ \E g \in Suspended : /\ g.fid \in Ancestors(cur.fid)
                                /\ BindingFrames(g, NextOp(cur).n) # {}) =>
            /\ result'.kind # "Virtual"
            /\ \E g \in Suspended :
                    /\ g.fid \in Ancestors(cur.fid)
                    /\ BindingFrames(g, NextOp(cur).n) # {}
                    /\ cur'.ops \in {g.frames[i].handlers[NextOp(cur).n].v :
                                        i \in BindingFrames(g, NextOp(cur).n)}
      ]_vars

\* C6: within one fiber a Raise(name) selects the handler of the innermost
\* frame that binds name: an outer binding is found from any nested frame,
\* and an inner binding shadows an outer one.
C6_InnermostBinding ==
    [][(Executes("Raise", 1) /\ BindingFrames(cur, NextOp(cur).n) # {}) =>
            LET name == NextOp(cur).n
                i == Innermost(BindingFrames(cur, name))
            IN  /\ result' = Running
                /\ cur'.fid = nextFid
                /\ cur'.ops = cur.frames[i].handlers[name].v
                /\ cur'.pc = 0
      ]_vars

\* C6 witness: a Raise from a nested frame has entered the handler bound in
\* that frame although the outer frame binds another handler to the name.
C6_Witness ==
    /\ SwitchedBy("Raise")
    /\ last.rc \in DOMAIN conts
    /\ LET raiser == conts[last.rc]
           name == last.op.n
       IN  /\ Len(raiser.frames) >= 2
           /\ {1, Len(raiser.frames)} \subseteq BindingFrames(raiser, name)
           /\ raiser.frames[1].handlers[name] #
                  raiser.frames[Len(raiser.frames)].handlers[name]
           /\ cur.ops = raiser.frames[Len(raiser.frames)].handlers[name].v

\* C7: a Raise(name) on a non-empty stack, with name bound in no frame of the
\* running fiber nor of the fibers it descends from, pops the top of the
\* stack and returns Virtual(name, that value); no fiber is switched or made.
C7_UnhandledRaise ==
    [][(/\ Executes("Raise", 1)
        /\ \A g \in Fibers :
              (g = cur \/ g.fid \in Ancestors(cur.fid)) =>
                    BindingFrames(g, NextOp(cur).n) = {}) =>
            /\ result'.kind = "Virtual"
            /\ result'.name = NextOp(cur).n
            /\ result'.data = Top(cur)
            /\ cur' = Popped(cur)
            /\ last'.rc = 0
            /\ nextRc' = nextRc
            /\ nextFid' = nextFid
            /\ DOMAIN conts' \subseteq DOMAIN conts
      ]_vars

\* C7 witness: a Raise has just returned Virtual with the value it popped.
C7_Witness ==
    /\ last.op.op = "Raise"
    /\ result.kind = "Virtual"
    /\ result.name = last.op.n
    /\ result.data = last.datum[Len(last.datum)]
    /\ cur.datum = SubSeq(last.datum, 1, Len(last.datum) - 1)

\* Operands an instruction pops.
Pops(o) ==
    CASE o.op = "Pop" -> o.n
      [] o.op \in {"Add", "Div", "Call"} -> 2
      [] o.op \in {"Handler", "Raise"} -> 1
      [] OTHER -> 0

\* C8: an instruction that would pop a value below the base index of the
\* innermost frame fails with Fatal.
C8_NoPopBelowBase ==
    [][(/\ result = Running
        /\ ~IsDone(cur)
        /\ Len(cur.datum) - Pops(NextOp(cur)) <
                cur.frames[Len(cur.frames)].index) =>
            result' = Fatal
      ]_vars

\* Every frame's base index is at most the length of its fiber's stack.
FrameBaseWithinStack ==
    \A f \in Fibers : \A i \in 1..Len(f.frames) :
        f.frames[i].index <= Len(f.datum)

\* C9: in every reachable state each frame's base index, of the running and
\* of the suspended fibers, is at most the operand-stack length, and no step
\* changes the base index of a frame that stays.
C9_FrameBaseInvariant ==
    [][/\ FrameBaseWithinStack'
       /\ \A f \in Fibers : \A g \in {cur'} \cup {conts'[r] : r \in DOMAIN conts'} :
            f.fid = g.fid =>
                \A i \in 1..Len(f.frames) :
                    i <= Len(g.frames) => g.frames[i].index = f.frames[i].index
      ]_vars

\* C10: after a Call on a closure the fiber is at instruction 0 of the
\* closure's code with the argument on top of the stack.
C10_CallStartsAtZero ==
    [][(Executes("Call", 2) /\ Callee(cur).tag = "Fun") =>
            /\ cur'.ops = Callee(cur).v
            /\ cur'.pc = 0
            /\ Top(cur') = Top(cur)
      ]_vars

------------------------------------------------------------------------------
\* The operand below the top of the stack: the one pushed first.
Second(f) == f.datum[Len(f.datum) - 1]

\* The stack of f below its top k values.
Below(f, k) == SubSeq(f.datum, 1, Len(f.datum) - k)

IsFinite(x) == x.tag = "Float" /\ x.w > 0

\* r is the sum of the numbers x and y, by cross multiplication when both
\* are finite.
IsSum(r, x, y) ==
    IF IsFinite(x) /\ IsFinite(y)
    THEN IsFinite(r) /\ r.v * x.w * y.w = (x.v * y.w + y.v * x.w) * r.w
    ELSE r = FAdd(x, y)

\* r is the quotient y / x of the numbers y and x, by cross multiplication
\* when both are finite and x is not zero.
IsQuotient(r, y, x) ==
    IF IsFinite(x) /\ IsFinite(y) /\ x.v # 0
    THEN IsFinite(r) /\ r.v * y.w * x.v = y.v * x.w * r.w
    ELSE r = FDiv(y, x)

\* C11: Div on the numbers x (pushed first) and y (pushed second, on top)
\* fails with ZeroDivision when y is zero, whatever x is; otherwise it pops
\* both and pushes y / x.  main.rs's Const 3, Const 4, Const 5, Add, Div
\* leaves 3 on top of the stack.
C11_DivOperandOrder ==
    [][/\ (/\ Executes("Div", 2)
           /\ Top(cur).tag = "Float"
           /\ Second(cur).tag = "Float")
          => LET y == Top(cur)
                 x == Second(cur)
             IN  IF y.w > 0 /\ y.v = 0
                 THEN result'.kind = "ZeroDivision"
                 ELSE /\ result' = Running
                      /\ Len(cur'.datum) = Len(cur.datum) - 1
                      /\ Below(cur', 1) = Below(cur, 2)
                      /\ IsQuotient(Top(cur'), y, x)
       /\ (/\ Fetch("Div")
           /\ cur.ops = 1
           /\ cur.pc = Len(MainArith) - 1
           /\ SubSeq(program, 1, Len(MainArith)) = MainArith)
          => /\ result' = Running
             /\ Top(cur') = Float(3)]_vars

\* main.rs's Div has run on 9 above 3 and left 3.
C11_Witness ==
    /\ last.op.op = "Div"
    /\ last.ops = 1
    /\ last.pc = 4
    /\ last.datum = <<Float(3), Float(9)>>
    /\ cur.datum = <<Float(3)>>

\* C13: Add on the numbers x and y on top of the stack pops both and pushes
\* x + y: the stack is one shorter and every lower value is as it was.  If
\* either popped value is not a number the step fails with TypeMismatch.
C13_AddSums ==
    [][Executes("Add", 2)
       => LET y == Top(cur)
              x == Second(cur)
          IN  IF x.tag = "Float" /\ y.tag = "Float"
              THEN /\ result' = Running
                   /\ Len(cur'.datum) = Len(cur.datum) - 1
                   /\ Below(cur', 1) = Below(cur, 2)
                   /\ IsSum(Top(cur'), x, y)
              ELSE result'.kind = "TypeMismatch"]_vars

\* main.rs's Add has run on 4 and 5 above 3 and left 9 above 3.
C13_Witness ==
    /\ last.op.op = "Add"
    /\ last.datum = <<Float(3), Float(4), Float(5)>>
    /\ cur.datum = <<Float(3), Float(9)>>
    /\ result = Running

\* The main fiber is about to execute Again's Raise with n frames.
LoopHead(n) ==
    /\ result = Running
    /\ cur.fid = 1
    /\ cur.ops = Len(Library) + 3
    /\ cur.pc = 1
    /\ Len(cur.frames) = n

C14_PopRemovesTopN ==
    [][Fetch("Pop")
       => LET n == NextOp(cur).n
          IN  IF Len(cur.datum) >= n
              THEN /\ result' = Running
                   /\ Len(cur'.datum) = Len(cur.datum) - n
                   /\ \A i \in 1..Len(cur'.datum) : cur'.datum[i] = cur.datum[i]
              ELSE result'.kind = "Fatal"]_vars

\* A Pop has run on a stack that held more than it removed.
C14_Witness ==
    /\ last.op.op = "Pop"
    /\ Len(last.datum) > last.op.n
    /\ cur.datum # <<>>
    /\ result = Running

\* C15: Call on [.., callee, arg] with a closure as callee pops both, pushes
\* exactly one frame (Suspend with the caller's code and the pc of the Call,
\* base the stack length after the two pops, the closure's captures, no
\* handler) and then pushes arg; the frames there were are unchanged.
C15_CallPushesOneFrame ==
    [][(Executes("Call", 2) /\ Callee(cur).tag = "Fun")
       => LET fun == Callee(cur)
              k == Len(cur.frames)
          IN  /\ result' = Running
              /\ Len(cur'.frames) = k + 1
              /\ SubSeq(cur'.frames, 1, k) = cur.frames
              /\ cur'.frames[k + 1].suspend.some
              /\ cur'.frames[k + 1].suspend.ops = cur.ops
              /\ cur'.frames[k + 1].suspend.pc = cur.pc
              /\ cur'.frames[k + 1].index = Len(cur.datum) - 2
              /\ cur'.frames[k + 1].captures = fun.w
              /\ \A n \in Names : cur'.frames[k + 1].handlers[n].tag = "None"
              /\ cur'.datum = Append(Below(cur, 2), Top(cur))
              /\ cur'.ops = fun.v]_vars

\* A closure with captures has been called above a value of the caller,
\* whose frame binds a handler.
C15_Witness ==
    /\ last.op.op = "Call"
    /\ last.rc = 0
    /\ result = Running
    /\ Len(cur.frames) = 2
    /\ cur.frames[2].captures = 1
    /\ cur.frames[2].index = 1
    /\ BindingFrames(cur, 1) = {1}

\* The frames, handler tables included, of the suspended fibers.
Tables(heap) == [r \in DOMAIN heap |-> heap[r].frames]

\* C16: Handler(name) pops one value; a closure is bound to name in the
\* innermost frame's table only, in place of what name was bound to there:
\* the other frames and the other names are as they were.  Any other value
\* fails with TypeMismatch and no table is modified.
C16_HandlerBindsInnermost ==
    [][Executes("Handler", 1)
       => LET fp == Top(cur)
              name == NextOp(cur).n
              k == Len(cur.frames)
          IN  /\ \A r \in DOMAIN conts \cap DOMAIN conts' :
                    Tables(conts')[r] = Tables(conts)[r]
              /\ IF fp.tag = "Fun"
                 THEN /\ result' = Running
                      /\ cur'.datum = Below(cur, 1)
                      /\ Len(cur'.frames) = k
                      /\ cur'.frames[k].handlers[name] = fp
                      /\ \A m \in Names \ {name} :
                            cur'.frames[k].handlers[m] = cur.frames[k].handlers[m]
                      /\ \A i \in 1..(k - 1) : cur'.frames[i] = cur.frames[i]
                 ELSE /\ result'.kind = "TypeMismatch"
                      /\ cur'.frames = cur.frames]_vars

\* A Handler has bound Name(0) in the second frame while the first frame
\* binds Name(1).
C16_Witness ==
    /\ last.op.op = "Handler"
    /\ result = Running
    /\ Len(cur.frames) = 2
    /\ BindingFrames(cur, 0) = {2}
    /\ BindingFrames(cur, 1) = {1}

\* A Handler has rebound a name in the frame that bound it.
C16_Rebound ==
    /\ last.op.op = "Handler"
    /\ result = Running
    /\ Len(cur.frames) = 1
    /\ cur.frames[1].handlers[1] = FunWith(3, 1)

\* The step switches fibers: it puts the running fiber behind a new Rc.
Switches == nextRc' # nextRc

\* C17: a fiber suspended inside a continuation keeps its operand stack, its
\* frames and its pc: it is stored as the switch left it (its operands
\* popped), no step of another fiber changes it, and the Call that resumes
\* it finds it so.
C17_SuspendedFiberUntouched ==
    [][/\ \A r \in DOMAIN conts \cap DOMAIN conts' : conts'[r] = conts[r]
       /\ Switches
          => /\ nextRc \in DOMAIN conts'
             /\ conts'[nextRc].fid = cur.fid
             /\ conts'[nextRc].frames = cur.frames
             /\ conts'[nextRc].ops = cur.ops
             /\ conts'[nextRc].pc = cur.pc
             /\ conts'[nextRc].datum =
                    Below(cur, IF Fetch("Raise") THEN 1 ELSE 2)
       /\ (Switches /\ Fetch("Call"))
          => LET saved == conts[Callee(cur).v]
             IN  /\ cur'.fid = saved.fid
                 /\ cur'.frames = saved.frames
                 /\ cur'.ops = saved.ops
                 /\ cur'.pc = saved.pc + 1
                 /\ Below(cur', 2) = saved.datum]_vars

\* A fiber made by a Raise has executed an instruction that is no switch
\* while the fiber that raised sits in a continuation with two frames.
C17_Witness ==
    /\ result = Running
    /\ last.rc = 0
    /\ last.op.op = "Const"
    /\ last.fid = cur.fid
    /\ cur.fid \in DOMAIN raisedBy
    /\ \E f \in Suspended : f.fid = raisedBy[cur.fid] /\ Len(f.frames) = 2

\* C18: every fiber, running or suspended, has at least one frame; its
\* outermost frame has no Suspend and base 0, every other frame has a
\* Suspend.
C18_FrameShape ==
    \A f \in Fibers :
        /\ Len(f.frames) >= 1
        /\ ~f.frames[1].suspend.some
        /\ f.frames[1].index = 0
        /\ \A i \in 2..Len(f.frames) : f.frames[i].suspend.some

\* A fiber with one frame runs while a fiber with three frames is
\* suspended.
C18_Witness ==
    /\ result = Running
    /\ Len(cur.frames) = 1
    /\ \E f \in Suspended : Len(f.frames) = 3

\* The program holds no continuation among its constants (the closures of
\* the library hold none, and no closure has a continuation captured).
NoContConstant == \A i \in 1..Len(program) : program[i].d.tag # "Cont"

\* The slots that hold the handle c: in the operand stacks of the running
\* and the suspended fibers and in the Effect returned.
References(c) ==
    {<<0, i>> : i \in {j \in 1..Len(cur.datum) : cur.datum[j] = Cont(c)}}
    \cup UNION {{<<r, i>> : i \in {j \in 1..Len(conts[r].datum) :
                                      conts[r].datum[j] = Cont(c)}} :
                r \in DOMAIN conts}
    \cup {<<0, 0>> : d \in {result.data} \cap {Cont(c)}}

\* C19: in a program without continuation constants every continuation a
\* fiber switch created has exactly one live reference in every state, and
\* a Call on one resumes it: it never fails with Fatal.
C19_SwitchContsUnique ==
    [][NoContConstant
       => /\ \A c \in DOMAIN conts' : Cardinality(References(c)') = 1
          /\ (Executes("Call", 2) /\ Callee(cur).tag = "Cont")
             => /\ result' = Running
                /\ Switches
                /\ cur'.fid = conts[Callee(cur).v].fid]_vars

\* In a program without continuation constants a Call has resumed a
\* continuation and another continuation is alive.
C19_Witness ==
    /\ NoContConstant
    /\ SwitchedBy("Call")
    /\ result = Running
    /\ Cardinality(DOMAIN conts) >= 2

====
